---------------------------- MODULE Spec2Model ----------------------------
(***************************************************************************)
(* Clinical-note pipeline of app/agent.py, app/fhir_mapper.py and the      *)
(* routers /full_workflow and /to_fhir:                                    *)
(*   model reply -> fence strip -> json.loads -> _enrich_with_codes ->     *)
(*   StructuredNote validation -> structured_to_fhir -> Bundle.            *)
(*                                                                         *)
(* Python values are tagged records: None, Str(text), Num(n), List(seq),   *)
(* Obj(dict).  A text is a sequence of one-character strings, so that      *)
(* strip, lower, startswith, join and f-string formatting are computed.    *)
(***************************************************************************)
EXTENDS Integers, Sequences, FiniteSets, TLC

\* ------------------------------------------------------------------ bounds

\* Largest number of conditions plus medications in one model reply.
MaxEntities == 2
\* Largest number of conditions, and of medications, in one /to_fhir request.
MaxListed == 2
\* Largest number of vitals, of labs and of plan items in one /to_fhir request.
MaxObs == 2
\* Largest patient age in a request.
MaxAge == 2

\* ------------------------------------------------------------ Python values

None == [t |-> "null"]
Str(s) == [t |-> "str", s |-> s]
Num(n) == [t |-> "int", n |-> n]
List(l) == [t |-> "list", l |-> l]
Obj(o) == [t |-> "obj", o |-> o]

\* The empty dict: a function with no key.
EmptyDict == [k \in {} |-> None]

\* bool(v) of a JSON-derived value.
Truthy(v) ==
    CASE v.t = "null" -> FALSE
      [] v.t = "str" -> Len(v.s) > 0
      [] v.t = "int" -> v.n # 0
      [] v.t = "list" -> Len(v.l) > 0
      [] v.t = "obj" -> DOMAIN v.o # {}

\* A raised exception, as the result of an expression.
Raise(kind) == [ok |-> FALSE, exc |-> kind]
Ok(v) == [ok |-> TRUE, v |-> v]

\* v[i] for an integer i >= 0: list element, one-character string, or an
\* exception (IndexError, KeyError on a dict, TypeError on None or a number).
PyIndex(v, i) ==
    CASE v.t = "list" -> IF i < Len(v.l) THEN Ok(v.l[i + 1]) ELSE Raise("IndexError")
      [] v.t = "str" -> IF i < Len(v.s) THEN Ok(Str(<<v.s[i + 1]>>)) ELSE Raise("IndexError")
      [] v.t = "obj" -> Raise("KeyError")
      [] OTHER -> Raise("TypeError")

\* v.get(key, default): only a dict has .get.
PyGet(v, key, default) ==
    IF v.t = "obj"
    THEN Ok(IF key \in DOMAIN v.o THEN v.o[key] ELSE default)
    ELSE Raise("AttributeError")

\* len(v) for the values that have one.
PyLen(v) ==
    CASE v.t = "list" -> Ok(Len(v.l))
      [] v.t = "str" -> Ok(Len(v.s))
      [] v.t = "obj" -> Ok(Cardinality(DOMAIN v.o))
      [] OTHER -> Raise("TypeError")

\* d[key] = value on a dict.
PySetItem(v, key, value) == Obj((key :> value) @@ v.o)

\* ------------------------------------------------------------------- texts

Whitespace == {" ", "\n"}

RECURSIVE LStripSet(_, _)
\* s.lstrip(chars)
LStripSet(s, chars) ==
    IF s # <<>> /\ Head(s) \in chars THEN LStripSet(Tail(s), chars) ELSE s

RECURSIVE RStripSet(_, _)
\* s.rstrip(chars)
RStripSet(s, chars) ==
    IF s # <<>> /\ s[Len(s)] \in chars
    THEN RStripSet(SubSeq(s, 1, Len(s) - 1), chars)
    ELSE s

\* s.strip(chars)
StripSet(s, chars) == RStripSet(LStripSet(s, chars), chars)

\* s.strip() and s.lstrip(): whitespace
Strip(s) == StripSet(s, Whitespace)
LStrip(s) == LStripSet(s, Whitespace)

\* str.lower() on the letters the model uses.
LowerChar(c) ==
    CASE c = "J" -> "j" [] c = "S" -> "s" [] c = "O" -> "o" [] c = "N" -> "n"
      [] c = "M" -> "m" [] c = "A" -> "a" [] c = "L" -> "l" [] c = "E" -> "e"
      [] c = "F" -> "f" [] c = "T" -> "t" [] c = "H" -> "h" [] c = "R" -> "r"
      [] c = "U" -> "u" [] c = "K" -> "k" [] c = "W" -> "w"
      [] OTHER -> c

RECURSIVE Lower(_)
\* s.lower()
Lower(s) == IF s = <<>> THEN <<>> ELSE <<LowerChar(Head(s))>> \o Lower(Tail(s))

\* s.startswith(p)
StartsWith(s, p) == Len(s) >= Len(p) /\ SubSeq(s, 1, Len(p)) = p

\* s[n:]
DropFirst(s, n) == IF n >= Len(s) THEN <<>> ELSE SubSeq(s, n + 1, Len(s))

RECURSIVE Join(_, _)
\* sep.join(parts)
Join(sep, parts) ==
    IF parts = <<>> THEN <<>>
    ELSE IF Len(parts) = 1 THEN parts[1]
    ELSE parts[1] \o sep \o Join(sep, Tail(parts))

\* str(v) inside an f-string: the text of a string, "None" for None.
PyStr(v) == IF v.t = "str" THEN v.s ELSE <<"N", "o", "n", "e">>

\* ------------------------------------------------- terminology services

T_I10 == <<"I", "1", "0">>
T_E11 == <<"E", "1", "1">>
T_label == <<"l", "b", "l">>
T_rx1 == <<"2", "9", "0">>
T_rx2 == <<"6", "8">>

\* What requests.get(..., timeout=5) can come back with: an exception
\* (timeout, connection error), a non-success status, or a 200 whose body
\* is JSON (a value) or is not JSON at all.
NotJson == [t |-> "notjson"]
HttpTimeout == [kind |-> "timeout", body |-> NotJson]
HttpNetworkError == [kind |-> "network_error", body |-> NotJson]
HttpStatusError == [kind |-> "http_error", body |-> NotJson]
HttpOk(body) == [kind |-> "ok", body |-> body]

\* clinicaltables reply [total, codes, extra, [[code, name], ...]]
IcdBody(pairs) == List(<<Num(Len(pairs)), List(<<>>), None, List(pairs)>>)

IcdGoodBodies == {IcdBody(<<List(<<Str(c), Str(T_label)>>)>>) : c \in {T_I10, T_E11}}
IcdEmptyBody == IcdBody(<<>>)
\* Bodies that are JSON but not the expected shape.
IcdMalformedBodies ==
    { Obj([error |-> Str(T_label)]),
      List(<<Num(1), List(<<>>), None, Str(T_I10)>>),
      List(<<Num(1), List(<<>>), None, List(<<List(<<List(<<Str(T_I10)>>), Str(T_label)>>)>>)>>) }

\* RxNav reply {"idGroup": {"rxnormId": [id, ...]}}
RxBody(ids) == Obj([idGroup |-> Obj([rxnormId |-> List(ids)])])
RxGoodBodies == {RxBody(<<Str(c)>>) : c \in {T_rx1, T_rx2}}
\* RxNav's reply for an unknown name: idGroup without rxnormId.
RxEmptyBody == Obj([idGroup |-> Obj(EmptyDict)])
RxMalformedBodies ==
    { List(<<>>),
      Obj([idGroup |-> Obj([rxnormId |-> Str(T_rx1)])]),
      Obj([idGroup |-> Obj([rxnormId |-> List(<<List(<<Str(T_rx1)>>)>>)])]) }

HttpFailures == {HttpTimeout, HttpNetworkError, HttpStatusError}
IcdResponses ==
    HttpFailures \cup {HttpOk(b) : b \in IcdGoodBodies \cup {IcdEmptyBody} \cup IcdMalformedBodies}
RxResponses ==
    HttpFailures \cup {HttpOk(b) : b \in RxGoodBodies \cup {RxEmptyBody} \cup RxMalformedBodies}

\* lookup_icd10(condition_name) when the service answers resp: the try
\* block's value, None on any exception.
lookup_icd10(condition_name, resp) ==
    IF resp.kind # "ok" \/ resp.body = NotJson THEN None
    ELSE LET results == PyIndex(resp.body, 3) IN
         IF ~results.ok THEN None
         ELSE IF ~Truthy(results.v) THEN None
         ELSE LET first == PyIndex(results.v, 0) IN
              IF ~first.ok THEN None
              ELSE LET code == PyIndex(first.v, 0) IN
                   IF code.ok THEN code.v ELSE None

\* lookup_rxnorm(med_name) when the service answers resp.
lookup_rxnorm(med_name, resp) ==
    IF resp.kind # "ok" \/ resp.body = NotJson THEN None
    ELSE LET id_group == PyGet(resp.body, "idGroup", Obj(EmptyDict)) IN
         IF ~id_group.ok THEN None
         ELSE LET rxcui == PyGet(id_group.v, "rxnormId", None) IN
              IF ~rxcui.ok THEN None
              ELSE IF ~Truthy(rxcui.v) THEN None
              ELSE IF ~PyLen(rxcui.v).ok THEN None
              ELSE IF ~(PyLen(rxcui.v).v > 0) THEN None
              ELSE LET id == PyIndex(rxcui.v, 0) IN
                   IF id.ok THEN id.v ELSE None


\* ------------------------------------------------------- the model's reply

\* The backquote character (written as a word: the character itself cannot
\* appear in a string of this module).
Backquote == "BACKQUOTE"
T_fence == <<Backquote, Backquote, Backquote>>
T_json == <<"j", "s", "o", "n">>
T_Json == <<"J", "s", "o", "n">>
T_xml == <<"x", "m", "l">>
NL == <<"\n">>
\* A JSON object text; "#" stands for the object's members, whose value
\* the reply carries beside the text.
T_object == <<"{", "#", "}">>
T_unbalanced == <<"{", "#">>
T_empty_object == <<"{", "}">>

\* json.loads(raw): surrounding whitespace is skipped; anything but one
\* complete JSON document is a JSONDecodeError.
json_loads(raw, members) ==
    LET doc == Strip(raw) IN
    CASE doc = T_object -> Ok(members)
      [] doc = T_empty_object -> Ok(Obj(EmptyDict))
      [] OTHER -> Raise("JSONDecodeError")

\* Faulty variant: the fence dropped, the label never.
strip_fence_keep_label(content) ==
    LET raw == Strip(content) IN
    IF StartsWith(raw, T_fence) THEN StripSet(raw, {Backquote}) ELSE raw

\* agent.py 126-133: strip, then drop a backquote fence and a leading "json".
strip_fence(content) ==
    LET raw == Strip(content) IN
    IF StartsWith(raw, T_fence)
    THEN LET inner == StripSet(raw, {Backquote}) IN
         IF StartsWith(Lower(inner), T_json)
         THEN LStrip(DropFirst(inner, 4))
         ELSE inner
    ELSE raw

\* _call_llm_for_structure after the completion call returned reply:
\* the parsed dict, or RuntimeError(f"Failed to parse LLM JSON: {e}\nRaw
\* content:\n{raw}") with raw as reassigned by the fence stripping.
call_llm_for_structure(reply) ==
    LET raw == strip_fence(reply.content)
        data == json_loads(raw, reply.members)
    IN IF data.ok
       THEN [ok |-> TRUE, data |-> data.v]
       ELSE [ok |-> FALSE, exc |-> "RuntimeError", diagnostic |-> data.exc, raw |-> raw]

\* fence + label + newline + payload + newline + fence
Fenced(label, payload) == T_fence \o label \o NL \o payload \o NL \o T_fence

Labels == {<<>>, T_json, T_Json, T_xml}
Bodies == {T_object, T_unbalanced, T_empty_object}
Padding == {<<>>, <<" ">>, NL}
Contents ==
    {lead \o text \o trail :
        lead \in Padding, trail \in Padding,
        text \in Bodies \cup {Fenced(l, b) : l \in Labels, b \in Bodies}}


\* ----------------------------------------------------- the parsed payload

T_htn == <<"h", "t", "n">>
T_dm == <<"d", "m">>
T_asa == <<"a", "s", "a">>
T_Z99 == <<"Z", "9", "9">>
T_R9 == <<"R", "9">>
T_10mg == <<"1", "0", "m", "g">>
T_daily == <<"d", "a", "i", "l", "y">>
T_oral == <<"o", "r", "a", "l">>
T_bp == <<"b", "p">>
T_120 == <<"1", "2", "0">>
T_mmHg == <<"m", "m", "H", "g">>
T_a1c == <<"a", "1", "c">>
T_7 == <<"7">>
T_pct == <<"%">>
T_rest == <<"r", "e", "s", "t">>
T_diet == <<"d", "i", "e", "t">>
T_Al == <<"A", "l">>
T_x == <<"x">>

\* A key the payload does not have.
Absent == [t |-> "absent"]
\* The dict with the keys of r whose value is not Absent.
Dict(r) == Obj([k \in {k \in DOMAIN r : r[k] # Absent} |-> r[k]])

\* Condition items a reply can hold: named, unnamed with a code the model
\* made up, and without a name key.
RawConditions ==
    { Dict([name |-> Str(T_htn), icd10_code |-> Absent]),
      Dict([name |-> Str(T_dm), icd10_code |-> Absent]),
      Dict([name |-> Str(<<>>), icd10_code |-> Str(T_Z99)]),
      Dict([name |-> Absent, icd10_code |-> Absent]) }

RawMedications ==
    { Dict([name |-> Str(T_asa), dose |-> Str(T_10mg), route |-> Str(T_oral),
            frequency |-> Str(T_daily), rxnorm_code |-> Absent]),
      Dict([name |-> Str(<<>>), dose |-> None, route |-> None,
            frequency |-> None, rxnorm_code |-> Str(T_R9)]) }

RawVital == Dict([type |-> Str(T_bp), value |-> Str(T_120), unit |-> Str(T_mmHg)])
RawLab == Dict([name |-> Str(T_a1c), value |-> Str(T_7), unit |-> Str(T_pct)])
RawPlanItem == Dict([description |-> Str(T_rest)])
RawPatient == Dict([name |-> Str(T_Al), age |-> Num(1), sex |-> Str(<<"M">>)])

\* Sequences over S of length at most n.
SeqUpTo(S, n) == UNION {[1..k -> S] : k \in 0..n}

\* A payload whose conditions and medications are lists of items, the
\* other sections as the prompt asks for them.
EntityPayload(cs, ms) ==
    Dict([patient |-> RawPatient, conditions |-> List(cs), medications |-> List(ms),
          vitals |-> List(<<RawVital>>), labs |-> List(<<>>), plan |-> List(<<RawPlanItem>>)])

\* A payload whose sections may be missing, null or of another type.
ShapePayload(p, c, m, v, l, pl) ==
    Dict([patient |-> p, conditions |-> c, medications |-> m,
          vitals |-> v, labs |-> l, plan |-> pl])

PatientShapes == {None, RawPatient, Str(T_x)}
ConditionShapes ==
    {Absent, None, Str(<<>>), Str(T_x), List(<<Dict([name |-> Str(T_htn)])>>),
     List(<<Str(T_htn)>>)}
MedicationShapes ==
    {Absent, None, Num(0), Num(1), List(<<Dict([name |-> Str(T_asa)])>>),
     List(<<Str(T_asa)>>)}
VitalShapes ==
    {Absent, None, Str(T_x), List(<<RawVital>>), List(<<Dict([type |-> Str(T_bp)])>>)}
LabShapes == {Absent, None, List(<<RawLab>>)}
PlanShapes == {Absent, None, List(<<RawPlanItem>>)}

\* The payload of the replies that vary in their wrapping only.
PlainPayload ==
    Dict([patient |-> None, conditions |-> List(<<>>), medications |-> List(<<>>),
          vitals |-> List(<<>>), labs |-> List(<<>>), plan |-> List(<<>>)])

\* -------------------------------------------------------- _enrich_with_codes

\* struct_dict.get(key) or []
get_or_empty(struct_dict, key) ==
    LET got == PyGet(struct_dict, key, None) IN
    IF ~got.ok THEN got
    ELSE IF Truthy(got.v) THEN got ELSE Ok(List(<<>>))

\* The items "for item in v" walks: a list's elements, a string's
\* characters, a dict's keys (strings); a number is not iterable.
IterItems(v) ==
    CASE v.t = "list" -> Ok(v.l)
      [] v.t = "str" -> Ok([i \in 1..Len(v.s) |-> Str(<<v.s[i]>>)])
      [] v.t = "obj" -> Ok([i \in 1..Cardinality(DOMAIN v.o) |-> Str(<<"k">>)])
      [] OTHER -> Raise("TypeError")

\* Faulty variant: the looked-up item is written over the first item of the list.
ReplaceAt_first(v, i, item) == List([v.l EXCEPT ![1] = item])

\* The list with element i replaced (the loop mutates the item in place).
ReplaceAt(v, i, item) == List([v.l EXCEPT ![i] = item])

\* --------------------------------------------------- StructuredNote(**dict)

ValidationError == Raise("ValidationError")

\* Optional[str] = None
OptStr(d, key) ==
    IF key \notin DOMAIN d.o THEN Ok(None)
    ELSE IF d.o[key].t \in {"null", "str"} THEN Ok(d.o[key])
    ELSE ValidationError

\* Optional[int] = None (the requests of this model hold no numeric string)
OptInt(d, key) ==
    IF key \notin DOMAIN d.o THEN Ok(None)
    ELSE IF d.o[key].t \in {"null", "int"} THEN Ok(d.o[key])
    ELSE ValidationError

\* str, required
ReqStr(d, key) ==
    IF key \in DOMAIN d.o /\ d.o[key].t = "str" THEN Ok(d.o[key]) ELSE ValidationError

\* A model built from fields, each Ok(value) or a validation error.
Model(fields) ==
    IF \A k \in DOMAIN fields : fields[k].ok
    THEN Ok([k \in DOMAIN fields |-> fields[k].v])
    ELSE ValidationError

PatientInfo(v) ==
    IF v.t # "obj" THEN ValidationError
    ELSE Model([name |-> OptStr(v, "name"), age |-> OptInt(v, "age"), sex |-> OptStr(v, "sex")])

Condition(v) ==
    IF v.t # "obj" THEN ValidationError
    ELSE Model([name |-> ReqStr(v, "name"), icd10_code |-> OptStr(v, "icd10_code")])

Medication(v) ==
    IF v.t # "obj" THEN ValidationError
    ELSE Model([name |-> ReqStr(v, "name"), dose |-> OptStr(v, "dose"),
                route |-> OptStr(v, "route"), frequency |-> OptStr(v, "frequency"),
                rxnorm_code |-> OptStr(v, "rxnorm_code")])

VitalSign(v) ==
    IF v.t # "obj" THEN ValidationError
    ELSE Model([type |-> ReqStr(v, "type"), value |-> ReqStr(v, "value"),
                unit |-> OptStr(v, "unit")])

LabResult(v) ==
    IF v.t # "obj" THEN ValidationError
    ELSE Model([name |-> ReqStr(v, "name"), value |-> OptStr(v, "value"),
                unit |-> OptStr(v, "unit")])

PlanItem(v) ==
    IF v.t # "obj" THEN ValidationError
    ELSE Model([description |-> ReqStr(v, "description")])

\* Optional[PatientInfo] = None
OptPatient(d) ==
    IF "patient" \notin DOMAIN d.o THEN Ok(None)
    ELSE IF d.o.patient.t = "null" THEN Ok(None)
    ELSE PatientInfo(d.o.patient)

\* List[Item] = []: the default when the key is missing, else a list
\* every item of which validates; None is not a list.
ItemOf(key, v) ==
    CASE key = "conditions" -> Condition(v)
      [] key = "medications" -> Medication(v)
      [] key = "vitals" -> VitalSign(v)
      [] key = "labs" -> LabResult(v)
      [] key = "plan" -> PlanItem(v)

ListOf(d, key) ==
    IF key \notin DOMAIN d.o THEN Ok(<<>>)
    ELSE IF d.o[key].t # "list" THEN ValidationError
    ELSE LET items == d.o[key].l IN
         IF \A i \in 1..Len(items) : ItemOf(key, items[i]).ok
         THEN Ok([i \in 1..Len(items) |-> ItemOf(key, items[i]).v])
         ELSE ValidationError

\* StructuredNote built from the keys of struct_dict
StructuredNote(struct_dict) ==
    IF struct_dict.t # "obj" THEN Raise("TypeError")
    ELSE Model([patient |-> OptPatient(struct_dict),
                conditions |-> ListOf(struct_dict, "conditions"),
                medications |-> ListOf(struct_dict, "medications"),
                vitals |-> ListOf(struct_dict, "vitals"),
                labs |-> ListOf(struct_dict, "labs"),
                plan |-> ListOf(struct_dict, "plan")])


\* -------------------------------------------------------- structured_to_fhir

T_male == <<"m", "a", "l", "e">>
T_female == <<"f", "e", "m", "a", "l", "e">>
T_other == <<"o", "t", "h", "e", "r">>
T_unknown == <<"u", "n", "k", "n", "o", "w", "n">>
T_bar == <<" ", "|", " ">>

\* Faulty variant: the patient id numbered from zero.
patient_id_zero == [prefix |-> "patient-", n |-> 0]

\* f"{prefix}{n}", kept as its two parts.
Id(prefix, n) == [prefix |-> prefix, n |-> n]
patient_id == Id("patient-", 1)
\* {"reference": f"Patient/{patient_id}"}
SubjectRef == [reference |-> [type |-> "Patient/", id |-> patient_id]]

\* r with key set to value when present holds, else r.
With(r, present, key, value) == IF present THEN (key :> value) @@ r ELSE r

\* Faulty variant: the sex compared without lower-casing it.
Gender_case_sensitive(sex) ==
    IF sex.s \in {T_male, T_female, T_other, T_unknown} THEN sex.s ELSE T_unknown

\* fhir_mapper.py 36-41
Gender(sex) ==
    LET sex_lower == Lower(sex.s) IN
    IF sex_lower \in {T_male, T_female, T_other, T_unknown} THEN sex_lower ELSE T_unknown

\* fhir_mapper.py 25-52; a PatientInfo instance is always truthy.
PatientResource(p) ==
    LET base == [resourceType |-> "Patient", id |-> patient_id]
        has == p # None
        named == With(base, has /\ Truthy(p.name), "name", <<[text |-> p.name.s]>>)
        sexed == With(named, has /\ Truthy(p.sex), "gender", Gender(p.sex))
    IN With(sexed, has /\ Truthy(p.age), "extension",
            <<[url |-> "http://hl7.org/fhir/StructureDefinition/patient-age",
               valueInteger |-> p.age.n]>>)

\* Faulty variant: the coding attached whenever the code is not None.
CodeBlock_when_not_none(text, code, system) ==
    IF code # None
    THEN [text |-> text.s, coding |-> <<[system |-> system, code |-> code.s]>>]
    ELSE [text |-> text.s]

\* {"text": text} plus, when code is truthy, "coding": [{system, code}]
CodeBlock(text, code, system) ==
    With([text |-> text.s], Truthy(code), "coding", <<[system |-> system, code |-> code.s]>>)

\* fhir_mapper.py 57-78
ConditionResource(idx, cond) ==
    [resourceType |-> "Condition", id |-> Id("condition-", idx), subject |-> SubjectRef,
     clinicalStatus |-> [text |-> "active"], verificationStatus |-> [text |-> "confirmed"],
     code |-> CodeBlock(cond.name, cond.icd10_code, "http://hl7.org/fhir/sid/icd-10-cm")]

\* Faulty variant: the route joined in between dose and frequency.
DosageText_with_route(med) ==
    LET med_text_parts ==
            (IF Truthy(med.dose) THEN <<med.dose.s>> ELSE <<>>)
            \o (IF Truthy(med.route) THEN <<med.route.s>> ELSE <<>>)
            \o (IF Truthy(med.frequency) THEN <<med.frequency.s>> ELSE <<>>)
    IN IF med_text_parts # <<>> THEN Str(Join(<<" ">>, med_text_parts)) ELSE None

\* fhir_mapper.py 86-91
DosageText(med) ==
    LET med_text_parts ==
            (IF Truthy(med.dose) THEN <<med.dose.s>> ELSE <<>>)
            \o (IF Truthy(med.frequency) THEN <<med.frequency.s>> ELSE <<>>)
    IN IF med_text_parts # <<>> THEN Str(Join(<<" ">>, med_text_parts)) ELSE None

\* fhir_mapper.py 83-119
MedicationResource(idx, med) ==
    LET dosage_text == DosageText(med)
        base == [resourceType |-> "MedicationRequest", id |-> Id("medreq-", idx),
                 subject |-> SubjectRef, status |-> "active", intent |-> "order",
                 medicationCodeableConcept |->
                     CodeBlock(med.name, med.rxnorm_code,
                               "http://www.nlm.nih.gov/research/umls/rxnorm")]
    IN With(base, Truthy(dosage_text), "dosageInstruction", <<[text |-> dosage_text.s]>>)

\* value_text, then f"{value_text} {unit}" when the unit is truthy
ValueText(value, unit) ==
    IF Truthy(unit) THEN Str(PyStr(value) \o <<" ">> \o unit.s) ELSE value

\* fhir_mapper.py 128-148 and 152-171
ObservationResource(prefix, obs_counter, display_text, value_text) ==
    [resourceType |-> "Observation", id |-> Id(prefix, obs_counter), status |-> "final",
     subject |-> SubjectRef, code |-> [text |-> display_text.s], valueString |-> value_text]

RECURSIVE VitalLoop(_, _)
\* for vital in structured.vitals, starting with the counter at obs_counter:
\* the resources, and the counter the loop leaves behind.
VitalLoop(vitals, obs_counter) ==
    IF vitals = <<>> THEN [resources |-> <<>>, obs_counter |-> obs_counter]
    ELSE LET vital == Head(vitals)
             rest == VitalLoop(Tail(vitals), obs_counter + 1)
         IN [resources |->
                 <<ObservationResource("observation-vital-", obs_counter, vital.type,
                                       ValueText(vital.value, vital.unit))>> \o rest.resources,
             obs_counter |-> rest.obs_counter]

RECURSIVE LabLoop(_, _)
\* for lab in structured.labs, the counter carried on from the vitals
LabLoop(labs, obs_counter) ==
    IF labs = <<>> THEN [resources |-> <<>>, obs_counter |-> obs_counter]
    ELSE LET lab == Head(labs)
             rest == LabLoop(Tail(labs), obs_counter + 1)
         IN [resources |->
                 <<ObservationResource("observation-lab-", obs_counter, lab.name,
                                       ValueText(lab.value, lab.unit))>> \o rest.resources,
             obs_counter |-> rest.obs_counter]

\* Faulty variant: the labs numbered with a counter of their own.
Observations_separate_counters(structured) ==
    VitalLoop(structured.vitals, 1).resources \o LabLoop(structured.labs, 1).resources

\* fhir_mapper.py 124-171
Observations(structured) ==
    LET vitals == VitalLoop(structured.vitals, 1)
        labs == LabLoop(structured.labs, vitals.obs_counter)
    IN vitals.resources \o labs.resources

\* Faulty variant: every description kept, the empty ones too.
Truthies_all(texts) == [i \in 1..Len(texts) |-> texts[i].s]

RECURSIVE Truthies(_)
\* [d for d in texts if d]
Truthies(texts) ==
    IF texts = <<>> THEN <<>>
    ELSE (IF Truthy(Head(texts)) THEN <<Head(texts).s>> ELSE <<>>) \o Truthies(Tail(texts))

\* fhir_mapper.py 176-193
CarePlanResources(plan) ==
    IF plan = <<>> THEN <<>>
    ELSE LET plan_descriptions == Truthies([i \in 1..Len(plan) |-> plan[i].description])
             narrative_text ==
                 IF plan_descriptions # <<>> THEN Str(Join(T_bar, plan_descriptions)) ELSE None
             base == [resourceType |-> "CarePlan", id |-> Id("careplan-", 1),
                      subject |-> SubjectRef, status |-> "active", intent |-> "plan"]
         IN <<With(base, Truthy(narrative_text), "description", narrative_text.s)>>

\* Faulty variant: the MedicationRequests appended before the Conditions.
structured_to_fhir_meds_first(structured) ==
    LET resources ==
            <<PatientResource(structured.patient)>>
            \o [i \in 1..Len(structured.medications) |->
                    MedicationResource(i, structured.medications[i])]
            \o [i \in 1..Len(structured.conditions) |->
                    ConditionResource(i, structured.conditions[i])]
            \o Observations(structured)
            \o CarePlanResources(structured.plan)
    IN [resourceType |-> "Bundle", type |-> "collection",
        entry |-> [i \in 1..Len(resources) |-> [resource |-> resources[i]]]]

\* structured_to_fhir(structured): the Bundle
structured_to_fhir(structured) ==
    LET resources ==
            <<PatientResource(structured.patient)>>
            \o [i \in 1..Len(structured.conditions) |->
                    ConditionResource(i, structured.conditions[i])]
            \o [i \in 1..Len(structured.medications) |->
                    MedicationResource(i, structured.medications[i])]
            \o Observations(structured)
            \o CarePlanResources(structured.plan)
    IN [resourceType |-> "Bundle", type |-> "collection",
        entry |-> [i \in 1..Len(resources) |-> [resource |-> resources[i]]]]


\* ------------------------------------------------------ /to_fhir requests

\* Validated entities a request body can hold.
Patients ==
    {None} \cup
    [name : {None, Str(<<>>), Str(T_Al)},
     age : {None} \cup {Num(a) : a \in 0..MaxAge},
     sex : {None, Str(<<>>), Str(T_male), Str(<<"M", "a", "l", "e">>),
            Str(<<"F", "E", "M", "A", "L", "E">>), Str(T_other),
            Str(<<"U", "n", "k", "n", "o", "w", "n">>), Str(<<"M">>), Str(T_x)}]

Conditions ==
    { [name |-> Str(T_htn), icd10_code |-> None],
      [name |-> Str(T_htn), icd10_code |-> Str(<<>>)],
      [name |-> Str(T_htn), icd10_code |-> Str(T_I10)],
      [name |-> Str(T_dm), icd10_code |-> Str(T_E11)] }

Medications ==
    { [name |-> Str(T_asa), dose |-> None, route |-> None, frequency |-> None,
       rxnorm_code |-> None],
      [name |-> Str(T_asa), dose |-> Str(T_10mg), route |-> Str(T_oral),
       frequency |-> Str(T_daily), rxnorm_code |-> Str(T_rx1)],
      [name |-> Str(T_asa), dose |-> None, route |-> Str(T_oral), frequency |-> None,
       rxnorm_code |-> Str(<<>>)],
      [name |-> Str(T_asa), dose |-> Str(T_10mg), route |-> None, frequency |-> None,
       rxnorm_code |-> None],
      [name |-> Str(T_asa), dose |-> Str(<<>>), route |-> None,
       frequency |-> Str(T_daily), rxnorm_code |-> Str(T_rx2)],
      [name |-> Str(T_asa), dose |-> Str(<<>>), route |-> None, frequency |-> None,
       rxnorm_code |-> None] }

Vitals ==
    { [type |-> Str(T_bp), value |-> Str(T_120), unit |-> Str(T_mmHg)],
      [type |-> Str(T_bp), value |-> Str(T_120), unit |-> None] }

Labs ==
    { [name |-> Str(T_a1c), value |-> Str(T_7), unit |-> Str(T_pct)],
      [name |-> Str(T_a1c), value |-> None, unit |-> Str(T_pct)],
      [name |-> Str(T_a1c), value |-> Str(T_7), unit |-> None],
      [name |-> Str(T_a1c), value |-> None, unit |-> None] }

PlanItems == [description : {Str(T_rest), Str(T_diet), Str(<<>>)}]

\* What the sections not under study hold: nothing, or one item each.
NoOthers ==
    [patient |-> None, conditions |-> <<>>, medications |-> <<>>,
     vitals |-> <<>>, labs |-> <<>>, plan |-> <<>>]
OneOfEach ==
    [patient |-> [name |-> Str(T_Al), age |-> Num(1), sex |-> Str(T_male)],
     conditions |-> <<[name |-> Str(T_htn), icd10_code |-> Str(T_I10)]>>,
     medications |-> <<[name |-> Str(T_asa), dose |-> Str(T_10mg), route |-> Str(T_oral),
                        frequency |-> Str(T_daily), rxnorm_code |-> Str(T_rx1)]>>,
     vitals |-> <<[type |-> Str(T_bp), value |-> Str(T_120), unit |-> Str(T_mmHg)]>>,
     labs |-> <<[name |-> Str(T_a1c), value |-> Str(T_7), unit |-> Str(T_pct)]>>,
     plan |-> <<[description |-> Str(T_rest)]>>]

\* ------------------------------------------------------------ the program

VARIABLES
    pc,            \* where the request handler is
    reply,         \* the completion the model returned for the extraction
    llm_calls,     \* extraction completions requested
    struct_dict,   \* the dict json.loads returned, as enrichment leaves it
    conditions,    \* _enrich_with_codes' local list of conditions
    meds,          \* _enrich_with_codes' local list of medications
    idx,           \* position of the running enrichment loop (from 1)
    lookups,       \* terminology requests sent, in order
    structured,    \* the StructuredNote, once built
    fhir_bundle,   \* the Bundle, once built
    error          \* the exception the handler turned into a 500

vars == <<pc, reply, llm_calls, struct_dict, conditions, meds, idx, lookups,
          structured, fhir_bundle, error>>

NoReply == [content |-> <<>>, members |-> None]
NoError == [exc |-> "none"]

\* POST /full_workflow arrives.
Init ==
    /\ pc = "summarize"
    /\ reply = NoReply
    /\ llm_calls = 0
    /\ struct_dict = None
    /\ conditions = None
    /\ meds = None
    /\ idx = 0
    /\ lookups = <<>>
    /\ structured = None
    /\ fhir_bundle = None
    /\ error = NoError

\* except Exception as e: raise HTTPException(status_code=500, detail=str(e))
Fail(e) ==
    /\ pc' = "failed"
    /\ error' = e

\* workflow.py 33-50: the summary and the optional RAG answer, which
\* either come back or raise.
Summarize ==
    /\ pc = "summarize"
    /\ \E ok \in BOOLEAN :
          IF ok THEN pc' = "extract" /\ error' = error
          ELSE Fail([exc |-> "RuntimeError", stage |-> "summarize"])
    /\ UNCHANGED <<reply, llm_calls, struct_dict, conditions, meds, idx, lookups,
                   structured, fhir_bundle>>

\* _call_llm_for_structure when the completion returns r: fence
\* stripping, json.loads.
Receive(r) ==
    LET res == call_llm_for_structure(r) IN
    /\ reply' = r
    /\ llm_calls' = llm_calls + 1
    /\ IF res.ok
       THEN /\ struct_dict' = res.data
            /\ pc' = "enrich"
            /\ error' = error
       ELSE /\ struct_dict' = struct_dict
            /\ Fail([exc |-> res.exc, stage |-> "parse",
                     diagnostic |-> res.diagnostic, raw |-> res.raw])

\* The completion call of _call_llm_for_structure: a plain JSON object
\* with lists of entities (at most MaxEntities in all), a plain JSON
\* object with sections of any shape, or the plain payload in any wrapping.
CallLLM ==
    /\ pc = "extract"
    /\ \/ \E cs \in SeqUpTo(RawConditions, MaxEntities) :
             \E ms \in SeqUpTo(RawMedications, MaxEntities - Len(cs)) :
                Receive([content |-> T_object, members |-> EntityPayload(cs, ms)])
       \/ \E p \in PatientShapes, c \in ConditionShapes, m \in MedicationShapes,
             v \in VitalShapes, l \in LabShapes, pl \in PlanShapes :
                Receive([content |-> T_object, members |-> ShapePayload(p, c, m, v, l, pl)])
       \/ \E c \in Contents :
             Receive([content |-> c, members |-> PlainPayload])
    /\ UNCHANGED <<conditions, meds, idx, lookups, structured, fhir_bundle>>

\* agent.py 151: conditions = struct_dict.get("conditions") or []
EnterConditions ==
    /\ pc = "enrich"
    /\ LET got == get_or_empty(struct_dict, "conditions") IN
       IF got.ok
       THEN /\ conditions' = got.v
            /\ idx' = 1
            /\ pc' = "conditions"
            /\ error' = error
       ELSE /\ Fail([exc |-> got.exc, stage |-> "enrich"])
            /\ UNCHANGED <<conditions, idx>>
    /\ UNCHANGED <<reply, llm_calls, struct_dict, meds, lookups, structured, fhir_bundle>>

\* agent.py 152-156: one turn of the loop over the conditions
EnrichCondition ==
    /\ pc = "conditions"
    /\ LET items == IterItems(conditions) IN
       IF ~items.ok
       THEN /\ Fail([exc |-> items.exc, stage |-> "enrich"])
            /\ UNCHANGED <<conditions, idx, lookups>>
       ELSE /\ idx <= Len(items.v)
            /\ LET cond == items.v[idx]
                   name == PyGet(cond, "name", None)
               IN IF ~name.ok
                  THEN /\ Fail([exc |-> name.exc, stage |-> "enrich"])
                       /\ UNCHANGED <<conditions, idx, lookups>>
                  ELSE /\ idx' = idx + 1
                       /\ UNCHANGED <<pc, error>>
                       /\ IF Truthy(name.v)
                          THEN \E resp \in IcdResponses :
                                  /\ conditions' =
                                        ReplaceAt(conditions, idx,
                                            PySetItem(cond, "icd10_code",
                                                      lookup_icd10(name.v, resp)))
                                  /\ lookups' =
                                        Append(lookups, [service |-> "icd10", term |-> name.v,
                                                         idx |-> idx, resp |-> resp])
                          ELSE UNCHANGED <<conditions, lookups>>
    /\ UNCHANGED <<reply, llm_calls, struct_dict, meds, structured, fhir_bundle>>

\* agent.py 159: meds = struct_dict.get("medications") or []
EnterMedications ==
    /\ pc = "conditions"
    /\ IterItems(conditions).ok
    /\ idx > Len(IterItems(conditions).v)
    /\ meds' = get_or_empty(struct_dict, "medications").v
    /\ idx' = 1
    /\ pc' = "medications"
    /\ UNCHANGED <<reply, llm_calls, struct_dict, conditions, lookups, structured,
                   fhir_bundle, error>>

\* agent.py 160-164: one turn of the loop over the medications
EnrichMedication ==
    /\ pc = "medications"
    /\ LET items == IterItems(meds) IN
       IF ~items.ok
       THEN /\ Fail([exc |-> items.exc, stage |-> "enrich"])
            /\ UNCHANGED <<meds, idx, lookups>>
       ELSE /\ idx <= Len(items.v)
            /\ LET med == items.v[idx]
                   name == PyGet(med, "name", None)
               IN IF ~name.ok
                  THEN /\ Fail([exc |-> name.exc, stage |-> "enrich"])
                       /\ UNCHANGED <<meds, idx, lookups>>
                  ELSE /\ idx' = idx + 1
                       /\ UNCHANGED <<pc, error>>
                       /\ IF Truthy(name.v)
                          THEN \E resp \in RxResponses :
                                  /\ meds' =
                                        ReplaceAt(meds, idx,
                                            PySetItem(med, "rxnorm_code",
                                                      lookup_rxnorm(name.v, resp)))
                                  /\ lookups' =
                                        Append(lookups, [service |-> "rxnorm", term |-> name.v,
                                                         idx |-> idx, resp |-> resp])
                          ELSE UNCHANGED <<meds, lookups>>
    /\ UNCHANGED <<reply, llm_calls, struct_dict, conditions, structured, fhir_bundle>>

\* Faulty variant: a payload that does not validate is replaced by an empty note.
Validate_lenient ==
    /\ pc = "medications"
    /\ IterItems(meds).ok
    /\ idx > Len(IterItems(meds).v)
    /\ LET enriched == PySetItem(PySetItem(struct_dict, "conditions", conditions),
                                 "medications", meds)
           note == StructuredNote(enriched)
       IN /\ struct_dict' = enriched
          /\ structured' = IF note.ok THEN note.v ELSE StructuredNote(Obj(EmptyDict)).v
          /\ pc' = "fhir"
    /\ UNCHANGED <<reply, llm_calls, conditions, meds, idx, lookups, fhir_bundle, error>>

\* agent.py 166-168 and 179: the lists are stored back and the dict is
\* validated into a StructuredNote.
Validate ==
    /\ pc = "medications"
    /\ IterItems(meds).ok
    /\ idx > Len(IterItems(meds).v)
    /\ LET enriched == PySetItem(PySetItem(struct_dict, "conditions", conditions),
                                 "medications", meds)
           note == StructuredNote(enriched)
       IN /\ struct_dict' = enriched
          /\ IF note.ok
             THEN /\ structured' = note.v
                  /\ pc' = "fhir"
                  /\ error' = error
             ELSE /\ structured' = structured
                  /\ Fail([exc |-> note.exc, stage |-> "validate"])
    /\ UNCHANGED <<reply, llm_calls, conditions, meds, idx, lookups, fhir_bundle>>

\* workflow.py 60-68: the Bundle is built and the response returned.
ToFhir ==
    /\ pc = "fhir"
    /\ fhir_bundle' = structured_to_fhir(structured)
    /\ pc' = "done"
    /\ UNCHANGED <<reply, llm_calls, struct_dict, conditions, meds, idx, lookups,
                   structured, error>>

Next ==
    \/ Summarize
    \/ CallLLM
    \/ EnterConditions
    \/ EnrichCondition
    \/ EnterMedications
    \/ EnrichMedication
    \/ Validate
    \/ ToFhir

Spec == Init /\ [][Next]_vars

\* POST /to_fhir arrives with a validated StructuredNote body: any
\* patient, any pair of condition and medication lists, any pair of vital
\* and lab lists, any plan, each beside empty and beside populated other
\* sections.
InitFhir ==
    /\ pc = "to_fhir"
    /\ reply = NoReply
    /\ llm_calls = 0
    /\ struct_dict = None
    /\ conditions = None
    /\ meds = None
    /\ idx = 0
    /\ lookups = <<>>
    /\ \E base \in {NoOthers, OneOfEach} :
          \/ \E p \in Patients : structured = [base EXCEPT !.patient = p]
          \/ \E cs \in SeqUpTo(Conditions, MaxListed), ms \in SeqUpTo(Medications, MaxListed) :
                structured = [base EXCEPT !.conditions = cs, !.medications = ms]
          \/ \E vs \in SeqUpTo(Vitals, MaxObs), ls \in SeqUpTo(Labs, MaxObs) :
                structured = [base EXCEPT !.vitals = vs, !.labs = ls]
          \/ \E ps \in SeqUpTo(PlanItems, MaxObs) : structured = [base EXCEPT !.plan = ps]
    /\ fhir_bundle = None
    /\ error = NoError

\* routers/fhir.py 12-19
to_fhir_endpoint ==
    /\ pc = "to_fhir"
    /\ fhir_bundle' = structured_to_fhir(structured)
    /\ pc' = "done"
    /\ UNCHANGED <<reply, llm_calls, struct_dict, conditions, meds, idx, lookups,
                   structured, error>>

NextFhir == to_fhir_endpoint

SpecFhir == InitFhir /\ [][NextFhir]_vars


\* ================================================================ claims

\* The handler holds a validated StructuredNote.
Validated == pc \in {"fhir", "done"}

\* The outcomes of one terminology request that are failures or "no
\* result": timeout, network error, non-success status, empty result set.
LookupFailed(resp) ==
    \/ resp \in {HttpTimeout, HttpNetworkError, HttpStatusError}
    \/ resp \in {HttpOk(IcdEmptyBody), HttpOk(RxEmptyBody)}

\* A success: the expected shape with one match.
LookupSucceeded(resp) == resp.kind = "ok" /\ resp.body \in IcdGoodBodies \cup RxGoodBodies

\* The first code a well-shaped body with a match holds.
FirstCode(resp) ==
    IF resp.body.t = "list" THEN resp.body.l[4].l[1].l[1]
    ELSE resp.body.o.idGroup.o.rxnormId.l[1]

\* The code entity l.idx holds in the StructuredNote.
FinalCode(l) ==
    IF l.service = "icd10" THEN structured.conditions[l.idx].icd10_code
    ELSE structured.medications[l.idx].rxnorm_code

\* The reply's payload has the shape the prompt asks for: patient an
\* object or null, each section a list of objects with their string keys.
HasStr(item, key) == item.t = "obj" /\ key \in DOMAIN item.o /\ item.o[key].t = "str"
NamedItem(item) == HasStr(item, "name")
VitalItem(item) == HasStr(item, "type") /\ HasStr(item, "value")
PlanEntry(item) == HasStr(item, "description")
GoodItem(key, item) ==
    CASE key = "vitals" -> VitalItem(item)
      [] key = "plan" -> PlanEntry(item)
      [] OTHER -> NamedItem(item)
IsListOf(m, key) ==
    key \notin DOMAIN m.o
    \/ (m.o[key].t = "list" /\ \A i \in 1..Len(m.o[key].l) : GoodItem(key, m.o[key].l[i]))
WellTyped(m) ==
    /\ m.t = "obj"
    /\ ("patient" \in DOMAIN m.o => m.o.patient.t \in {"null", "obj"})
    /\ \A key \in {"conditions", "medications", "vitals", "labs", "plan"} : IsListOf(m, key)

\* The entities of a section that have a non-empty name.
NamedIndexes(items) == {i \in 1..Len(items) : items[i].name.s # <<>>}
LookupsOf(service) == {k \in 1..Len(lookups) : lookups[k].service = service}

IcdShaped(body) ==
    /\ body.t = "list"
    /\ Len(body.l) >= 4
    /\ body.l[4].t = "list"
    /\ \A i \in 1..Len(body.l[4].l) :
          LET pair == body.l[4].l[i] IN
          pair.t = "list" /\ Len(pair.l) = 2 /\ pair.l[1].t = "str" /\ pair.l[2].t = "str"
RxShaped(body) ==
    /\ body.t = "obj"
    /\ "idGroup" \in DOMAIN body.o
    /\ body.o.idGroup.t = "obj"
    /\ "rxnormId" \in DOMAIN body.o.idGroup.o
          => LET ids == body.o.idGroup.o.rxnormId IN
             ids.t = "list" /\ \A i \in 1..Len(ids.l) : ids.l[i].t = "str"
Misshaped(l) ==
    /\ l.resp.kind = "ok"
    /\ IF l.service = "icd10" THEN ~IcdShaped(l.resp.body) ELSE ~RxShaped(l.resp.body)

\* The code the enrichment loop stored for lookup l.
StoredCode(l) ==
    IF l.service = "icd10" THEN conditions.l[l.idx].o.icd10_code
    ELSE meds.l[l.idx].o.rxnorm_code

\* C2 as stated: a body of another shape than the expected one counts as
\* no result: the entity's code is null, and neither the lookup nor the
\* later validation aborts the run.
C2_MisshapedIsNoResult ==
    /\ \A k \in 1..Len(lookups) : Misshaped(lookups[k]) => StoredCode(lookups[k]) = None
    /\ (pc = "failed" /\ error.stage \in {"enrich", "validate"})
          => ~WellTyped(reply.members)

StageOrder ==
    { <<"summarize", "extract">>, <<"extract", "enrich">>, <<"enrich", "conditions">>,
      <<"conditions", "medications">>, <<"medications", "fhir">>, <<"fhir", "done">> }
    \cup {<<st, "failed">> : st \in {"summarize", "extract", "enrich", "conditions",
                                     "medications"}}

C3_StageInvariant ==
    /\ pc \in {"summarize", "extract"} => struct_dict = None /\ lookups = <<>>
    /\ pc \in {"enrich", "conditions", "medications"}
          => struct_dict # None /\ structured = None /\ fhir_bundle = None
    /\ lookups # <<>> => struct_dict # None
    /\ (pc = "failed" /\ error.stage \in {"summarize", "parse"})
          => lookups = <<>> /\ structured = None /\ fhir_bundle = None
    /\ (pc = "failed" /\ error.stage \in {"enrich", "validate"})
          => structured = None /\ fhir_bundle = None
    /\ Validated
          => /\ structured # None
             /\ StructuredNote(struct_dict).ok
             /\ structured = StructuredNote(struct_dict).v
             /\ struct_dict.o.conditions = conditions
             /\ struct_dict.o.medications = meds
    /\ fhir_bundle # None => pc = "done"

C4_ParseErrorCarriesOriginalText ==
    (pc = "failed" /\ error.stage = "parse")
    => /\ Strip(error.raw) = Strip(reply.content)
       /\ error.diagnostic = "JSONDecodeError"
       /\ llm_calls = 1
       /\ lookups = <<>>
       /\ structured = None
       /\ fhir_bundle = None

\* C5 as stated: a StructuredNote is produced only from a payload whose
\* present fields all have the right type; a section given as null or as a
\* non-list, or a list item without its name, fails the run.
C5_AllOrNothing == Validated => WellTyped(reply.members)


\* ------------------------------------------------------- the mapper's claims

\* The i-th resource of the Bundle.
Entry(i) == fhir_bundle.entry[i].resource
Entries == 1..Len(fhir_bundle.entry)
NConditions == Len(structured.conditions)
NMedications == Len(structured.medications)
NVitals == Len(structured.vitals)
NLabs == Len(structured.labs)

\* C6: the Bundle of every StructuredNote holds exactly one Patient
\* resource, with id patient-1, and every other resource is a Condition,
\* MedicationRequest, Observation or CarePlan whose subject is
\* Patient/patient-1.
C6_OnePatient ==
    pc = "done"
    => /\ Cardinality({i \in Entries : Entry(i).resourceType = "Patient"}) = 1
       /\ \A i \in Entries :
             IF Entry(i).resourceType = "Patient"
             THEN Entry(i).id = [prefix |-> "patient-", n |-> 1]
             ELSE /\ Entry(i).resourceType \in
                        {"Condition", "MedicationRequest", "Observation", "CarePlan"}
                  /\ "subject" \in DOMAIN Entry(i)
                  /\ Entry(i).subject =
                        [reference |-> [type |-> "Patient/",
                                        id |-> [prefix |-> "patient-", n |-> 1]]]

\* A Bundle for a note without a patient that holds all five resource types.
C6_Witness ==
    /\ pc = "done"
    /\ structured.patient = None
    /\ {Entry(i).resourceType : i \in Entries} =
          {"Patient", "Condition", "MedicationRequest", "Observation", "CarePlan"}

GenderWords == {T_male, T_female, T_other, T_unknown}

\* The capital of a letter of the four words.
Capital(c) ==
    CASE c = "m" -> "M" [] c = "a" -> "A" [] c = "l" -> "L" [] c = "e" -> "E"
      [] c = "f" -> "F" [] c = "o" -> "O" [] c = "t" -> "T" [] c = "h" -> "H"
      [] c = "r" -> "R" [] c = "u" -> "U" [] c = "n" -> "N" [] c = "k" -> "K"
      [] c = "w" -> "W"
      [] OTHER -> c

\* s and the lower-case word w differ in the case of letters at most.
SameIgnoringCase(s, w) ==
    Len(s) = Len(w) /\ \A i \in 1..Len(w) : s[i] \in {w[i], Capital(w[i])}

\* C7 as stated: every non-null sex yields a gender of the vocabulary.
C7_EverySexHasGender ==
    (pc = "done" /\ structured.patient # None /\ structured.patient.sex # None)
    => /\ "gender" \in DOMAIN Entry(1)
       /\ Entry(1).gender \in GenderWords

\* C7 (as amended): for every non-null and non-empty sex the Patient
\* carries a gender of {male, female, other, unknown}: the word the sex
\* equals case-insensitively, unknown for any other value; a null or
\* empty sex yields no gender.
C7_GenderVocabulary ==
    (pc = "done" /\ structured.patient # None)
    => LET sex == structured.patient.sex IN
       IF sex = None \/ sex.s = <<>>
       THEN "gender" \notin DOMAIN Entry(1)
       ELSE /\ "gender" \in DOMAIN Entry(1)
            /\ Entry(1).gender \in GenderWords
            /\ \A w \in GenderWords : SameIgnoringCase(sex.s, w) => Entry(1).gender = w
            /\ (\A w \in GenderWords : ~SameIgnoringCase(sex.s, w))
                  => Entry(1).gender = T_unknown

\* A sex in capitals mapped to its lower-case word.
C7_Witness ==
    /\ pc = "done"
    /\ structured.patient # None
    /\ structured.patient.sex = Str(<<"F", "E", "M", "A", "L", "E">>)
    /\ Entry(1).gender = T_female

\* C8 as stated: whenever the age is present (any non-negative integer)
\* the Patient carries the age extension with valueInteger equal to it,
\* and the extension is absent only when the patient or the age is null.
C8_AgeExtension ==
    pc = "done"
    => IF structured.patient # None /\ structured.patient.age # None
       THEN /\ "extension" \in DOMAIN Entry(1)
            /\ Len(Entry(1).extension) = 1
            /\ Entry(1).extension[1].valueInteger = structured.patient.age.n
       ELSE "extension" \notin DOMAIN Entry(1)

\* The code block of an entity: its text, and whether and what it codes.
CodesAs(block, name, code, system, coded) ==
    /\ block.text = name.s
    /\ ("coding" \in DOMAIN block) <=> coded
    /\ coded => block.coding = <<[system |-> system, code |-> code.s]>>

IcdSystem == "http://hl7.org/fhir/sid/icd-10-cm"
RxSystem == "http://www.nlm.nih.gov/research/umls/rxnorm"

\* C9 as stated: the code block holds the coding entry if and only if the
\* entity's code is non-null, and its text is the entity's name.
C9_CodingIffNonNull ==
    pc = "done"
    => /\ \A i \in 1..NConditions :
             LET cond == structured.conditions[i] IN
             CodesAs(Entry(1 + i).code, cond.name, cond.icd10_code, IcdSystem,
                     cond.icd10_code # None)
       /\ \A j \in 1..NMedications :
             LET med == structured.medications[j] IN
             CodesAs(Entry(1 + NConditions + j).medicationCodeableConcept, med.name,
                     med.rxnorm_code, RxSystem, med.rxnorm_code # None)

\* C9 (as amended): the code block holds the ICD-10-CM (RxNorm) coding
\* entry with the entity's code if and only if the code is non-null and
\* non-empty; the block's text is the entity's name.
C9_CodingIffNonEmpty ==
    pc = "done"
    => /\ \A i \in 1..NConditions :
             LET cond == structured.conditions[i] IN
             /\ Entry(1 + i).resourceType = "Condition"
             /\ CodesAs(Entry(1 + i).code, cond.name, cond.icd10_code, IcdSystem,
                        cond.icd10_code # None /\ cond.icd10_code.s # <<>>)
       /\ \A j \in 1..NMedications :
             LET med == structured.medications[j] IN
             /\ Entry(1 + NConditions + j).resourceType = "MedicationRequest"
             /\ CodesAs(Entry(1 + NConditions + j).medicationCodeableConcept, med.name,
                        med.rxnorm_code, RxSystem,
                        med.rxnorm_code # None /\ med.rxnorm_code.s # <<>>)

\* Condition htn coded I10: text htn plus the coding {icd-10-cm, I10}.
C9_Witness ==
    /\ pc = "done"
    /\ NConditions >= 1
    /\ structured.conditions[1] = [name |-> Str(T_htn), icd10_code |-> Str(T_I10)]
    /\ Entry(2).code = [text |-> T_htn, coding |-> <<[system |-> IcdSystem, code |-> T_I10]>>]
    /\ NMedications >= 1
    /\ structured.medications[1].rxnorm_code = None
    /\ "coding" \notin DOMAIN Entry(1 + NConditions + 1).medicationCodeableConcept

\* C10: with v vitals and l labs the Observation ids are
\* observation-vital-1 .. observation-vital-v followed by
\* observation-lab-(v+1) .. observation-lab-(v+l); no two Observations
\* share a numeric suffix.
C10_SharedObservationCounter ==
    pc = "done"
    => LET first == 1 + NConditions + NMedications
           obs == {i \in Entries : Entry(i).resourceType = "Observation"}
       IN /\ obs = (first + 1)..(first + NVitals + NLabs)
          /\ \A i \in 1..NVitals :
                Entry(first + i).id = [prefix |-> "observation-vital-", n |-> i]
          /\ \A j \in 1..NLabs :
                Entry(first + NVitals + j).id =
                    [prefix |-> "observation-lab-", n |-> NVitals + j]
          /\ \A a, b \in obs : a # b => Entry(a).id.n # Entry(b).id.n

\* Two vitals and two labs: vital-1, vital-2, lab-3, lab-4.
C10_Witness ==
    /\ pc = "done"
    /\ NVitals = 2
    /\ NLabs = 2
    /\ NConditions = 1
    /\ Entry(5).id = [prefix |-> "observation-vital-", n |-> 2]
    /\ Entry(6).id = [prefix |-> "observation-lab-", n |-> 3]
    /\ Entry(7).id = [prefix |-> "observation-lab-", n |-> 4]


\* The descriptions of the plan, and those of them that are not empty.
PlanTexts == [i \in 1..Len(structured.plan) |-> structured.plan[i].description.s]
NonEmpty(texts) == SelectSeq(texts, LAMBDA d : d # <<>>)

RECURSIVE Separated(_, _)
\* The parts in order with sep between each two neighbours.
Separated(sep, parts) ==
    IF parts = <<>> THEN <<>>
    ELSE IF Len(parts) = 1 THEN parts[1]
    ELSE Separated(sep, SubSeq(parts, 1, Len(parts) - 1)) \o sep \o parts[Len(parts)]

CarePlans == {i \in Entries : Entry(i).resourceType = "CarePlan"}

\* C11: the Bundle holds a CarePlan, exactly one and with id careplan-1,
\* if and only if the plan list is non-empty; the CarePlan has a
\* description if and only if some plan item has a non-empty description,
\* and the description is then the non-empty descriptions in input order
\* joined by " | ".
C11_CarePlanIffPlan ==
    pc = "done"
    => /\ (CarePlans # {}) <=> (structured.plan # <<>>)
       /\ Cardinality(CarePlans) <= 1
       /\ \A i \in CarePlans :
             /\ Entry(i).id = [prefix |-> "careplan-", n |-> 1]
             /\ ("description" \in DOMAIN Entry(i)) <=> (NonEmpty(PlanTexts) # <<>>)
             /\ "description" \in DOMAIN Entry(i)
                   => Entry(i).description = Separated(<<" ", "|", " ">>, NonEmpty(PlanTexts))

\* A plan of an empty description and a real one: the CarePlan's
\* description is the real one alone.
C11_Witness ==
    /\ pc = "done"
    /\ Len(structured.plan) = 2
    /\ structured.plan[1].description = Str(<<>>)
    /\ structured.plan[2].description = Str(T_diet)
    /\ CarePlans # {}
    /\ \A i \in CarePlans : Entry(i).description = T_diet


\* The MedicationRequest of the i-th medication.
MedEntry(i) == Entry(1 + NConditions + i)

\* The texts of dose and frequency, in that order, that are not null, and
\* those that are neither null nor empty.
NonNullParts(med) ==
    (IF med.dose # None THEN <<med.dose.s>> ELSE <<>>)
    \o (IF med.frequency # None THEN <<med.frequency.s>> ELSE <<>>)
NonEmptyParts(med) == NonEmpty(NonNullParts(med))

\* C12 as stated: a MedicationRequest has a dosage instruction if and
\* only if dose or frequency is non-null, and its text is the non-null
\* parts of [dose, frequency] joined by one space.
C12_DosageFromNonNullParts ==
    pc = "done"
    => \A i \in 1..NMedications :
          LET med == structured.medications[i] IN
          /\ ("dosageInstruction" \in DOMAIN MedEntry(i)) <=> (NonNullParts(med) # <<>>)
          /\ "dosageInstruction" \in DOMAIN MedEntry(i)
                => MedEntry(i).dosageInstruction
                      = <<[text |-> Separated(<<" ">>, NonNullParts(med))]>>

\* C12 (as amended): a MedicationRequest has a dosage instruction if and
\* only if dose or frequency is a non-empty string; its text is the
\* non-empty parts of [dose, frequency], in that order, joined by one
\* space, whatever the route.
C12_DosageFromNonEmptyParts ==
    pc = "done"
    => \A i \in 1..NMedications :
          LET med == structured.medications[i] IN
          /\ MedEntry(i).resourceType = "MedicationRequest"
          /\ ("dosageInstruction" \in DOMAIN MedEntry(i)) <=> (NonEmptyParts(med) # <<>>)
          /\ "dosageInstruction" \in DOMAIN MedEntry(i)
                => MedEntry(i).dosageInstruction
                      = <<[text |-> Separated(<<" ">>, NonEmptyParts(med))]>>

\* Dose 10mg, frequency daily, route oral gives "10mg daily"; a
\* medication with only a route gets no dosage instruction.
C12_Witness ==
    /\ pc = "done"
    /\ NMedications = 2
    /\ structured.medications[1].dose = Str(T_10mg)
    /\ structured.medications[1].route = Str(T_oral)
    /\ structured.medications[1].frequency = Str(T_daily)
    /\ MedEntry(1).dosageInstruction = <<[text |-> T_10mg \o <<" ">> \o T_daily]>>
    /\ structured.medications[2].dose = None
    /\ structured.medications[2].frequency = None
    /\ structured.medications[2].route = Str(T_oral)
    /\ "dosageInstruction" \notin DOMAIN MedEntry(2)


\* The Observation of the i-th vital and of the j-th lab.
VitalEntry(i) == Entry(1 + NConditions + NMedications + i)
LabEntry(j) == Entry(1 + NConditions + NMedications + NVitals + j)
NonEmptyStr(v) == v # None /\ v.s # <<>>

\* C13: the entries are the Patient, then one Condition per condition in
\* input order with ids condition-1..n (equal conditions kept apart), then
\* one MedicationRequest per medication in input order with ids
\* medreq-1..m, then one Observation per vital, then one per lab, then the
\* CarePlan if the plan is non-empty; the number of entries is
\* 1 + conditions + medications + vitals + labs + (1 if plan else 0) and
\* no two resources of a Bundle share an id.
C13_EntrySequence ==
    pc = "done"
    => /\ fhir_bundle.resourceType = "Bundle"
       /\ Len(fhir_bundle.entry) =
             1 + NConditions + NMedications + NVitals + NLabs
             + (IF structured.plan # <<>> THEN 1 ELSE 0)
       /\ Entry(1).resourceType = "Patient"
       /\ \A i \in 1..NConditions :
             LET cond == structured.conditions[i] IN
             /\ Entry(1 + i).resourceType = "Condition"
             /\ Entry(1 + i).id = [prefix |-> "condition-", n |-> i]
             /\ Entry(1 + i).code.text = cond.name.s
             /\ ("coding" \in DOMAIN Entry(1 + i).code) <=> NonEmptyStr(cond.icd10_code)
       /\ \A i \in 1..NMedications :
             LET med == structured.medications[i] IN
             /\ MedEntry(i).resourceType = "MedicationRequest"
             /\ MedEntry(i).id = [prefix |-> "medreq-", n |-> i]
             /\ MedEntry(i).medicationCodeableConcept.text = med.name.s
             /\ ("coding" \in DOMAIN MedEntry(i).medicationCodeableConcept)
                   <=> NonEmptyStr(med.rxnorm_code)
             /\ ("dosageInstruction" \in DOMAIN MedEntry(i))
                   <=> (NonEmptyStr(med.dose) \/ NonEmptyStr(med.frequency))
       /\ \A i \in 1..NVitals :
             /\ VitalEntry(i).resourceType = "Observation"
             /\ VitalEntry(i).id.prefix = "observation-vital-"
             /\ VitalEntry(i).code.text = structured.vitals[i].type.s
             /\ (VitalEntry(i).valueString = structured.vitals[i].value)
                   <=> ~NonEmptyStr(structured.vitals[i].unit)
       /\ \A j \in 1..NLabs :
             /\ LabEntry(j).resourceType = "Observation"
             /\ LabEntry(j).id.prefix = "observation-lab-"
             /\ LabEntry(j).code.text = structured.labs[j].name.s
             /\ (LabEntry(j).valueString = structured.labs[j].value)
                   <=> ~NonEmptyStr(structured.labs[j].unit)
       /\ structured.plan # <<>>
             => Entry(Len(fhir_bundle.entry)).resourceType = "CarePlan"
       /\ \A a, b \in Entries : a # b => Entry(a).id # Entry(b).id

\* Two equal conditions and one medication beside one vital, one lab and
\* a plan: seven entries, the two conditions as condition-1 and
\* condition-2.
C13_Witness ==
    /\ pc = "done"
    /\ NConditions = 2
    /\ structured.conditions[1] = structured.conditions[2]
    /\ NMedications = 1
    /\ Len(fhir_bundle.entry) = 7
    /\ Entry(2).id = [prefix |-> "condition-", n |-> 1]
    /\ Entry(3).id = [prefix |-> "condition-", n |-> 2]
    /\ Entry(3).code = Entry(2).code
    /\ Entry(4).id = [prefix |-> "medreq-", n |-> 1]
    /\ Entry(5).id.prefix = "observation-vital-"
    /\ Entry(6).id.prefix = "observation-lab-"
    /\ Entry(7).resourceType = "CarePlan"


\* ------------------------------------------------- the normalizer's claims

\* The reply is body b in a fence labelled l, or bare, with any padding.
IsFenced(l, b) ==
    \E lead \in Padding, trail \in Padding : reply.content = lead \o Fenced(l, b) \o trail
IsBare(b) ==
    \E lead \in Padding, trail \in Padding : reply.content = lead \o b \o trail

\* What _call_llm_for_structure makes of the bare body b.
OfBare(b) == call_llm_for_structure([content |-> b, members |-> reply.members])

\* The run did with the reply what it would have done with the bare body
\* b: the same parsed value, or a parse error where that is one.
ParsedAs(b) ==
    /\ pc = "enrich" => OfBare(b).ok /\ struct_dict = OfBare(b).data
    /\ (pc = "failed" /\ error.stage = "parse") <=> ~OfBare(b).ok
    /\ ~OfBare(b).ok => error.diagnostic = OfBare(b).diagnostic

Received == pc \notin {"summarize", "extract"} /\ reply # NoReply

\* The labels the fence stripping drops: none, and json in any case.
JsonLabels == {l \in Labels : l = <<>> \/ Lower(l) = T_json}

\* C14 as stated: for every body and every label, the fenced reply
\* parses to what the bare body parses to; a reply without a fence is
\* parsed unchanged.
C14_FenceTransparentForEveryLabel ==
    Received
    => /\ \A l \in Labels, b \in Bodies : IsFenced(l, b) => ParsedAs(b)
       /\ \A b \in Bodies : IsBare(b) => ParsedAs(b)

\* C14 (as amended): for every body, a fence without a label or with the
\* label json in any letter case is transparent; a fence with any other
\* label ends the run in a parse error; a reply without a fence is parsed
\* unchanged.
C14_FenceTransparentForJson ==
    Received
    => /\ \A l \in JsonLabels, b \in Bodies : IsFenced(l, b) => ParsedAs(b)
       /\ \A l \in Labels \ JsonLabels, b \in Bodies :
             IsFenced(l, b) => pc = "failed" /\ error.stage = "parse"
       /\ \A b \in Bodies : IsBare(b) => ParsedAs(b)

\* The json-labelled fenced payload of a null patient and five empty
\* lists, padded, ended in the StructuredNote of a null patient and five
\* empty lists.
C14_Witness ==
    /\ pc = "done"
    /\ reply.content = NL \o Fenced(T_json, T_object) \o <<" ">>
    /\ reply.members = PlainPayload
    /\ structured = [patient |-> None, conditions |-> <<>>, medications |-> <<>>,
                     vitals |-> <<>>, labs |-> <<>>, plan |-> <<>>]


\* ------------------------------------------------- the enrichment's claims

\* The lookups issued for entity i of a service.
LookupsFor(service, i) == {k \in LookupsOf(service) : lookups[k].idx = i}

\* What the lookup function returned for lookup l.
ReturnedCode(l) ==
    IF l.service = "icd10" THEN lookup_icd10(l.term, l.resp) ELSE lookup_rxnorm(l.term, l.resp)

\* C15 as stated: a run issues exactly one lookup for each condition and
\* each medication, with the entity's own name as the term, and none
\* besides; the code an entity ends with is what its own lookup returned;
\* and the validated note is the payload's own note with nothing but
\* icd10_code and rxnorm_code changed: the same patient, vitals, labs and
\* plan, the same number and order of conditions and medications, the
\* same names, doses, routes and frequencies.
C15_CodesOnlyUpdate ==
    Validated
    => LET before == StructuredNote(reply.members) IN
       /\ Len(lookups) = NConditions + NMedications
       /\ \A i \in 1..NConditions :
             /\ Cardinality(LookupsFor("icd10", i)) = 1
             /\ \A k \in LookupsFor("icd10", i) :
                   /\ lookups[k].term = structured.conditions[i].name
                   /\ structured.conditions[i].icd10_code = ReturnedCode(lookups[k])
       /\ \A i \in 1..NMedications :
             /\ Cardinality(LookupsFor("rxnorm", i)) = 1
             /\ \A k \in LookupsFor("rxnorm", i) :
                   /\ lookups[k].term = structured.medications[i].name
                   /\ structured.medications[i].rxnorm_code = ReturnedCode(lookups[k])
       /\ before.ok
       /\ before.ok
             => /\ structured.patient = before.v.patient
                /\ structured.vitals = before.v.vitals
                /\ structured.labs = before.v.labs
                /\ structured.plan = before.v.plan
                /\ NConditions = Len(before.v.conditions)
                /\ NMedications = Len(before.v.medications)
                /\ \A i \in 1..NConditions :
                      structured.conditions[i].name = before.v.conditions[i].name
                /\ \A i \in 1..NMedications :
                      [structured.medications[i] EXCEPT !.rxnorm_code = None]
                         = [before.v.medications[i] EXCEPT !.rxnorm_code = None]


\* ------------------------------------------------ the observations' claims

\* The text made of a value and a unit alone: the value, then one space
\* and the unit when there is a unit.  A null value contributes nothing,
\* with or without the space before the unit.
TextsOf(value, unit) ==
    LET tail == IF unit # None THEN <<" ">> \o unit.s ELSE <<>> IN
    IF value # None THEN {value.s \o tail}
    ELSE IF unit # None THEN {tail, unit.s} ELSE {<<>>}

\* C16 as stated: every Observation's valueString is a string, the value
\* followed by one space and the unit when a unit is present and the bare
\* value otherwise, for every vital and every lab; a lab without a value
\* gets no placeholder text in front of its unit.
C16_ValueStringFromValueAndUnit ==
    pc = "done"
    => /\ \A i \in 1..NVitals :
             /\ VitalEntry(i).valueString.t = "str"
             /\ VitalEntry(i).valueString.s
                   \in TextsOf(structured.vitals[i].value, structured.vitals[i].unit)
       /\ \A j \in 1..NLabs :
             /\ LabEntry(j).valueString.t = "str"
             /\ LabEntry(j).valueString.s
                   \in TextsOf(structured.labs[j].value, structured.labs[j].unit)

=============================================================================
